---- MODULE Spec2Model ----
(***************************************************************************)
(* Verification model of the 1brc Go variants.                             *)
(*                                                                         *)
(*   src/unnamed/part_000  mmap + sharded interner (Intern, parseChunkIDs) *)
(*   src/unnamed/part_002  overlap-read chunks (parseChunk)                *)
(*   src/go_v1/main.go     shard files, then per-shard aggregation         *)
(*                                                                         *)
(* Bytes are their ASCII codes.  Go slices and indices are 0-based; a      *)
(* 0-based index i of a buffer b is the TLA+ element b[i + 1].             *)
(* Values are held in tenths, as the programs of part_000/part_002 do.     *)
(***************************************************************************)
EXTENDS Integers, Sequences, FiniteSets, TLC

(***************************************************************************)
(* Bounds of the model                                                     *)
(***************************************************************************)
\* longest input drawn byte by byte
MaxLen == 4
\* most lines of an input built from whole lines
MaxLines == 3
\* largest worker count (the programs take it from runtime.NumCPU())
MaxWorkers == 3
\* most lines / workers of the inputs of the interleaved interner runs
MaxLinesI == 3
MaxWorkersI == 3
\* most lines of an input of go_v1, and the largest runtime.NumCPU()
MaxLinesV == 2
MaxCPU == 2
\* the 64-bit FNV-1a hash is computed in HashBits-bit arithmetic
HashBits == 4
\* most lines / workers of the interleaved runs with colliding keys only
MaxLinesH == 2
MaxWorkersH == 2
\* most lines of an input of part_001
MaxLinesL == 2
\* the largest runtime.NumCPU() of the interleaved runs of go_v1 and part_001
MaxCPUC == 2
\* most digits of the integer part of a value text of the parser runs
MaxDigits == 2

(***************************************************************************)
(* Bytes                                                                   *)
(***************************************************************************)
NL == 10
SEMI == 59
MINUS == 45
PLUS == 43
DOT == 46
ZERO == 48
NINE == 57

Code(c) ==
    CASE c = "A" -> 65 [] c = "B" -> 66 [] c = "C" -> 67 [] c = "a" -> 97
      [] c = ";" -> SEMI [] c = "-" -> MINUS [] c = "+" -> PLUS [] c = "." -> DOT
      [] c = "x" -> 120 [] c = "\n" -> NL
      [] c = "0" -> 48 [] c = "1" -> 49 [] c = "2" -> 50 [] c = "3" -> 51
      [] c = "5" -> 53

Bytes(s) == [k \in 1..Len(s) |-> Code(s[k])]

IsDigit(c) == c >= ZERO /\ c <= NINE

\* b[lo:hi] of Go
Slice(b, lo, hi) == SubSeq(b, lo + 1, hi)

RECURSIVE Concat(_)
Concat(ss) == IF ss = <<>> THEN <<>> ELSE Head(ss) \o Concat(Tail(ss))

RECURSIVE SeqsUpTo(_, _)
SeqsUpTo(S, n) ==
    IF n = 0 THEN {<<>>}
    ELSE LET prev == SeqsUpTo(S, n - 1)
         IN  prev \cup {Append(p, x) : p \in {q \in prev : Len(q) = n - 1}, x \in S}

\* the lines joined by '\n', with or without a terminator after the last one
Joined(ls, term) ==
    Concat([k \in 1..Len(ls) |->
              IF k < Len(ls) \/ term THEN ls[k] \o <<NL>> ELSE ls[k]])

Alphabet == {Code("A"), SEMI, Code("1"), NL}

LineSet ==
    { Bytes(<<"A", ";", "1">>),
      Bytes(<<"A", ";", "-", "2", ".", "5">>),
      Bytes(<<"B", ";", "3">>),
      <<>>,
      Bytes(<<"A", "B">>),
      Bytes(<<"B", ";", "x">>) }

\* "A" and "a" have the same hash in HashBits-bit arithmetic, "B" another one
LineSetI ==
    { Bytes(<<"A", ";", "1">>), Bytes(<<"B", ";", "3">>), Bytes(<<"a", ";", "3">>) }

LineSetH == { Bytes(<<"A", ";", "1">>), Bytes(<<"a", ";", "3">>) }

ShortInputs == SeqsUpTo(Alphabet, MaxLen) \ {<<>>}

LineInputs ==
    {Joined(ls, t) : ls \in (SeqsUpTo(LineSet, MaxLines) \ {<<>>}), t \in BOOLEAN}
        \ {<<>>}

Inputs == ShortInputs \cup LineInputs

LineSetV ==
    { Bytes(<<"A", ";", "1">>),
      Bytes(<<"B", ";", "-", "2", ".", "5">>),
      Bytes(<<"A", ";", "3">>),
      Bytes(<<"a", ";", "3">>),
      <<>>,
      Bytes(<<";", "1">>),
      Bytes(<<"B", ";", "x">>) }

InputsV ==
    {Joined(ls, t) : ls \in (SeqsUpTo(LineSetV, MaxLinesV) \ {<<>>}), t \in BOOLEAN}
        \ {<<>>}

InputsI == {Joined(ls, FALSE) : ls \in (SeqsUpTo(LineSetI, MaxLinesI) \ {<<>>})}

\* the input of the interleaved runs of go_v1: the stations "xB" and "AC"
\* have the shard indices 31 and 29
InputsC ==
    { Bytes(<<"x", "B", ";", "1", "\n", "A", "C", ";", "3", "\n",
              "x", "B", ";", "3", "\n">>) }

\* the inputs of part_001
LineSetL ==
    { Bytes(<<"A", ";", "1">>),
      Bytes(<<"A", ";", "-", "2", ".", "5">>),
      <<>>,
      Bytes(<<"A", "B">>),
      Bytes(<<"A", ";", "x">>) }

InputsL ==
    {Joined(ls, t) : ls \in (SeqsUpTo(LineSetL, MaxLinesL) \ {<<>>}), t \in BOOLEAN}
        \ {<<>>}

InputsH == {Joined(ls, FALSE) : ls \in (SeqsUpTo(LineSetH, MaxLinesH) \ {<<>>})}

\* value texts [sign]digits['.'digit]: the sign, the digits of the integer
\* part and the fractional digit (<<>> when there is none)
Signs == {<<>>, <<MINUS>>, <<PLUS>>}
IntTexts == SeqsUpTo({Code("0"), Code("3")}, MaxDigits) \ {<<>>}
FracTexts == {<<>>, <<DOT, Code("2")>>, <<DOT, Code("5")>>}

ValueText(sg, ds, fr) == sg \o ds \o fr

\* one line "A;<value>", with or without its '\n'
InputsP ==
    {Joined(<<Bytes(<<"A", ";">>) \o ValueText(sg, ds, fr)>>, t) :
        sg \in Signs, ds \in IntTexts, fr \in FracTexts, t \in BOOLEAN}

(***************************************************************************)
(* Stat and the maps                                                       *)
(***************************************************************************)
EmptyMap == <<>>

Get(m, k) == m[k]
Has(m, k) == k \in DOMAIN m
Put(m, k, v) == [x \in DOMAIN m \cup {k} |-> IF x = k THEN v ELSE m[x]]

Stat(mn, mx, sm, ct) == [min |-> mn, max |-> mx, sum |-> sm, count |-> ct]

(***************************************************************************)
(* part_000: fnv1a64, in HashBits-bit arithmetic                           *)
(***************************************************************************)
\* the low 16 bits of off = 1469598103934665603 and of prime = 1099511628211
FnvOff == 899
FnvPrime == 435

RECURSIVE Pow2(_)
Pow2(n) == IF n = 0 THEN 1 ELSE 2 * Pow2(n - 1)

HashMod == Pow2(HashBits)

RECURSIVE Xor(_, _)
Xor(a, b) ==
    IF a = 0 THEN b
    ELSE IF b = 0 THEN a
    ELSE (((a % 2) + (b % 2)) % 2) + 2 * Xor(a \div 2, b \div 2)

RECURSIVE fnvFold(_, _)
fnvFold(h, b) ==
    IF b = <<>> THEN h
    ELSE fnvFold((Xor(h, Head(b)) * (FnvPrime % HashMod)) % HashMod, Tail(b))

fnv1a64(b) == fnvFold(FnvOff % HashMod, b)

\* sh := &in.shards[h&255]
ShardOf(h) == h % 256

(***************************************************************************)
(* part_000: parseChunkIDs, one iteration of the outer loop                *)
(***************************************************************************)
\* the inner loop that looks for ';' from index i; a '\n' met first restarts
\* the line.  semi = -1 when the buffer ends first.
\* (mutant) the '\n' branch forgets `lineStart = i`
RECURSIVE findSemiKeepStart(_, _, _)
findSemiKeepStart(buf, i, lineStart) ==
    IF i >= Len(buf) THEN [semi |-> -1, i |-> i, lineStart |-> lineStart]
    ELSE IF buf[i + 1] = SEMI THEN [semi |-> i, i |-> i + 1, lineStart |-> lineStart]
    ELSE findSemiKeepStart(buf, i + 1, lineStart)

RECURSIVE findSemi(_, _, _)
findSemi(buf, i, lineStart) ==
    IF i >= Len(buf) THEN [semi |-> -1, i |-> i, lineStart |-> lineStart]
    ELSE IF buf[i + 1] = SEMI THEN [semi |-> i, i |-> i + 1, lineStart |-> lineStart]
    ELSE IF buf[i + 1] = NL THEN findSemi(buf, i + 1, i + 1)
    ELSE findSemi(buf, i + 1, lineStart)

\* for i < n { c := buf[i]; if digit { intPart = intPart*10 + (c-'0'); i++ } else break }
RECURSIVE intDigits(_, _, _)
intDigits(buf, i, intPart) ==
    IF i < Len(buf) /\ IsDigit(buf[i + 1])
    THEN intDigits(buf, i + 1, intPart * 10 + (buf[i + 1] - ZERO))
    ELSE [intPart |-> intPart, i |-> i]

\* for i < n && buf[i] != '\n' { i++ }
RECURSIVE skipToNL(_, _)
skipToNL(buf, i) ==
    IF i < Len(buf) /\ buf[i + 1] # NL THEN skipToNL(buf, i + 1) ELSE i

\* (mutant) the sign is applied to the integer part only
parseTempSignOnInt(buf, i) ==
    LET n      == Len(buf)
        isNeg  == i < n /\ buf[i + 1] = MINUS
        isPos  == i < n /\ buf[i + 1] = PLUS
        sign   == IF isNeg THEN -1 ELSE 1
        i1     == IF isNeg \/ isPos THEN i + 1 ELSE i
        d      == intDigits(buf, i1, 0)
        i2     == d.i
        i3     == IF i2 < n /\ buf[i2 + 1] = DOT THEN i2 + 1 ELSE i2
        hasDec == i3 < n /\ IsDigit(buf[i3 + 1])
        decDigit == IF hasDec THEN buf[i3 + 1] - ZERO ELSE 0
        i4     == IF hasDec THEN i3 + 1 ELSE i3
        i5     == skipToNL(buf, i4)
        i6     == IF i5 < n /\ buf[i5 + 1] = NL THEN i5 + 1 ELSE i5
    IN  [tenth |-> sign * d.intPart * 10 + decDigit, i |-> i6]

\* the temperature that starts at index i (just after the ';'): the value in
\* tenths and the index of the next line
parseTemp(buf, i) ==
    LET n      == Len(buf)
        isNeg  == i < n /\ buf[i + 1] = MINUS
        isPos  == i < n /\ buf[i + 1] = PLUS
        sign   == IF isNeg THEN -1 ELSE 1
        i1     == IF isNeg \/ isPos THEN i + 1 ELSE i
        d      == intDigits(buf, i1, 0)
        i2     == d.i
        i3     == IF i2 < n /\ buf[i2 + 1] = DOT THEN i2 + 1 ELSE i2
        hasDec == i3 < n /\ IsDigit(buf[i3 + 1])
        decDigit == IF hasDec THEN buf[i3 + 1] - ZERO ELSE 0
        i4     == IF hasDec THEN i3 + 1 ELSE i3
        i5     == skipToNL(buf, i4)
        i6     == IF i5 < n /\ buf[i5 + 1] = NL THEN i5 + 1 ELSE i5
    IN  [tenth |-> sign * (d.intPart * 10 + decDigit), i |-> i6]

\* one iteration of `for i < n`: found = FALSE is the break at `semi < 0`
scanLine(buf, i) ==
    LET f == findSemi(buf, i, i)
    IN  IF f.semi < 0
        THEN [found |-> FALSE, key |-> <<>>, tenth |-> 0, i |-> f.i]
        ELSE LET t == parseTemp(buf, f.i)
             IN  [found |-> TRUE, key |-> Slice(buf, f.lineStart, f.semi),
                  tenth |-> t.tenth, i |-> t.i]

\* (mutant) the update branch leaves count as it is
aggregateNoCount(m, id, tenth) ==
    IF Has(m, id)
    THEN LET st == Get(m, id)
         IN  Put(m, id, Stat(IF tenth < st.min THEN tenth ELSE st.min,
                             IF tenth > st.max THEN tenth ELSE st.max,
                             st.sum + tenth, st.count))
    ELSE Put(m, id, Stat(tenth, tenth, tenth, 1))

\* the update of m[cityID] with one value
aggregate(m, id, tenth) ==
    IF Has(m, id)
    THEN LET st == Get(m, id)
         IN  Put(m, id, Stat(IF tenth < st.min THEN tenth ELSE st.min,
                             IF tenth > st.max THEN tenth ELSE st.max,
                             st.sum + tenth, st.count + 1))
    ELSE Put(m, id, Stat(tenth, tenth, tenth, 1))

\* the decimal digits of n >= 0
RECURSIVE DigitsOf(_)
DigitsOf(n) ==
    IF n < 10 THEN <<ZERO + n>> ELSE Append(DigitsOf(n \div 10), ZERO + (n % 10))

\* Printf("%.1f", float64(t)/10.0) of the output loop: t tenths written with
\* one decimal
fmtTenth(t) ==
    LET a == IF t < 0 THEN -t ELSE t
    IN  (IF t < 0 THEN <<MINUS>> ELSE <<>>)
            \o DigitsOf(a \div 10) \o <<DOT, ZERO + (a % 10)>>

(***************************************************************************)
(* part_000: the partition loop of main                                    *)
(***************************************************************************)
\* for p < lim && d[p] != '\n' { p++ }
RECURSIVE scanNL(_, _, _)
scanNL(d, p, lim) ==
    IF p < lim /\ d[p + 1] # NL THEN scanNL(d, p + 1, lim) ELSE p

chunkOf(d, w) == Len(d) \div w

naiveEnd(d, w, i) == IF i = w - 1 THEN Len(d) ELSE i * chunkOf(d, w) + chunkOf(d, w)

\* (mutant) the start of worker i is not aligned
startOfNotAligned(d, w, i) == i * chunkOf(d, w)

\* start of worker i: aligned to the line boundary (skips the partial line)
startOf(d, w, i) ==
    LET start == i * chunkOf(d, w)
        end   == naiveEnd(d, w, i)
        s1    == scanNL(d, start, end)
    IN  IF i > 0 THEN (IF s1 < end THEN s1 + 1 ELSE s1) ELSE start

\* end of worker i: extended up to the next newline
endOf(d, w, i) ==
    LET end == naiveEnd(d, w, i)
    IN  IF i < w - 1 THEN scanNL(d, end, Len(d)) ELSE end

(***************************************************************************)
(* part_000: merge of one entry of a local map into global                 *)
(***************************************************************************)
\* (mutant) the else branch compares the wrong way round for min
mergeEntryMinFlipped(g, id, st) ==
    IF ~Has(g, id) THEN Put(g, id, st)
    ELSE LET e == Get(g, id)
         IN  Put(g, id, Stat(IF st.min > e.min THEN st.min ELSE e.min,
                             IF st.max > e.max THEN st.max ELSE e.max,
                             e.sum + st.sum, e.count + st.count))

mergeEntry(g, id, st) ==
    IF ~Has(g, id) THEN Put(g, id, st)
    ELSE LET e == Get(g, id)
         IN  Put(g, id, Stat(IF st.min < e.min THEN st.min ELSE e.min,
                             IF st.max > e.max THEN st.max ELSE e.max,
                             e.sum + st.sum, e.count + st.count))

\* (mutant) only the lengths are compared
equalSBLengthOnly(s, b) == Len(s) = Len(b)

\* equalSB(s, b): same length and the same byte at every index
equalSB(s, b) == Len(s) = Len(b) /\ \A k \in 1..Len(b) : s[k] = b[k]

(***************************************************************************)
(* part_002: parseChunk                                                    *)
(***************************************************************************)
RECURSIVE pcFindSemi(_, _, _)
pcFindSemi(buf, i, lineStart) ==
    IF i >= Len(buf) THEN [semi |-> -1, i |-> i, lineStart |-> lineStart]
    ELSE IF buf[i + 1] = SEMI THEN [semi |-> i, i |-> i + 1, lineStart |-> lineStart]
    ELSE IF buf[i + 1] = NL THEN pcFindSemi(buf, i + 1, i + 1)
    ELSE pcFindSemi(buf, i + 1, lineStart)

RECURSIVE pcIntDigits(_, _, _)
pcIntDigits(buf, i, intPart) ==
    IF i < Len(buf) /\ IsDigit(buf[i + 1])
    THEN pcIntDigits(buf, i + 1, intPart * 10 + (buf[i + 1] - ZERO))
    ELSE [intPart |-> intPart, i |-> i]

RECURSIVE pcSkipToNL(_, _)
pcSkipToNL(buf, i) ==
    IF i < Len(buf) /\ buf[i + 1] # NL THEN pcSkipToNL(buf, i + 1) ELSE i

pcParseTemp(buf, i) ==
    LET n      == Len(buf)
        isNeg  == i < n /\ buf[i + 1] = MINUS
        isPos  == i < n /\ buf[i + 1] = PLUS
        sign   == IF isNeg THEN -1 ELSE 1
        i1     == IF isNeg \/ isPos THEN i + 1 ELSE i
        d      == pcIntDigits(buf, i1, 0)
        i2     == d.i
        i3     == IF i2 < n /\ buf[i2 + 1] = DOT THEN i2 + 1 ELSE i2
        hasDec == i3 < n /\ IsDigit(buf[i3 + 1])
        decDigit == IF hasDec THEN buf[i3 + 1] - ZERO ELSE 0
        i4     == IF hasDec THEN i3 + 1 ELSE i3
        i5     == pcSkipToNL(buf, i4)
        i6     == IF i5 < n /\ buf[i5 + 1] = NL THEN i5 + 1 ELSE i5
    IN  [tenth |-> sign * (d.intPart * 10 + decDigit), i |-> i6]

\* the aggregation of one value into m[city]
pcAggregate(m, city, tenth) ==
    IF Has(m, city)
    THEN LET st == Get(m, city)
         IN  Put(m, city, Stat(IF tenth < st.min THEN tenth ELSE st.min,
                               IF tenth > st.max THEN tenth ELSE st.max,
                               st.sum + tenth, st.count + 1))
    ELSE Put(m, city, Stat(tenth, tenth, tenth, 1))

\* parseChunk(buf, m) from index i on: the map after the whole loop
RECURSIVE parseChunk(_, _, _)
parseChunk(buf, i, m) ==
    IF i >= Len(buf) THEN m
    ELSE LET f == pcFindSemi(buf, i, i)
         IN  IF f.semi < 0 THEN m
             ELSE LET t == pcParseTemp(buf, f.i)
                      city == Slice(buf, f.lineStart, f.semi)
                  IN  parseChunk(buf, t.i, pcAggregate(m, city, t.tenth))

(***************************************************************************)
(* part_002: the work ranges and the body of a worker goroutine            *)
(***************************************************************************)
\* const overlap = int64(1 << 20)
overlap == 1048576

\* wks: Work{start, end} of worker i, end inclusive
RECURSIVE wksFrom(_, _, _, _)
wksFrom(size, w, i, s) ==
    IF i >= w THEN <<>>
    ELSE LET e == IF i = w - 1 THEN size - 1 ELSE s + (size \div w) - 1
         IN  <<[start |-> s, end |-> e]>> \o wksFrom(size, w, i + 1, e + 1)

wksOf(size, w) == wksFrom(size, w, 0, 0)

\* index just after the first '\n' of buf at or after offset, or readLen
RECURSIVE skipFirstLine(_, _)
skipFirstLine(buf, offset) ==
    IF offset < Len(buf)
    THEN IF buf[offset + 1] = NL THEN offset + 1 ELSE skipFirstLine(buf, offset + 1)
    ELSE offset

\* for j >= 0 && buf[j] != '\n' { j-- }
RECURSIVE lastNL(_, _)
lastNL(buf, j) == IF j >= 0 /\ buf[j + 1] # NL THEN lastNL(buf, j - 1) ELSE j

\* the local map worker i leaves in locals[i] (nil, read as empty, when it
\* returns early)
workerLocal(d, wk) ==
    LET size     == Len(d)
        re       == wk.end + overlap
        readEnd  == IF re >= size THEN size - 1 ELSE re
        readLen  == readEnd - wk.start + 1
        buf      == Slice(d, wk.start, wk.start + readLen)
        offset   == IF wk.start # 0 THEN skipFirstLine(buf, 0) ELSE 0
        j        == lastNL(buf, readLen - 1)
        limit    == IF wk.end < size - 1 /\ j >= 0 THEN j + 1 ELSE readLen
    IN  IF wk.start # 0 /\ offset >= readLen THEN EmptyMap
        ELSE parseChunk(Slice(buf, offset, limit), 0, EmptyMap)

\* the merge of one entry of a local map into global
oMergeEntry(g, city, st) ==
    IF ~Has(g, city) THEN Put(g, city, st)
    ELSE LET e == Get(g, city)
         IN  Put(g, city, Stat(IF st.min < e.min THEN st.min ELSE e.min,
                               IF st.max > e.max THEN st.max ELSE e.max,
                               e.sum + st.sum, e.count + st.count))

(***************************************************************************)
(* go_v1: helpers                                                          *)
(***************************************************************************)
shardCount == 32

\* findSep: index of the first ';' of b, or -1
RECURSIVE findSepFrom(_, _)
findSepFrom(b, i) ==
    IF i >= Len(b) THEN -1
    ELSE IF b[i + 1] = SEMI THEN i
    ELSE findSepFrom(b, i + 1)

findSep(b) == findSepFrom(b, 0)

\* the low 16 bits of the FNV-32a offset basis 2166136261 and prime 16777619;
\* the low 16 bits of the hash depend on nothing else, and the shard index
\* is the hash modulo 32 (int is 64 bits wide: int(h.Sum32()) >= 0)
Fnv32Off == 40389
Fnv32Prime == 403

RECURSIVE fnv32aLow(_, _)
fnv32aLow(h, b) ==
    IF b = <<>> THEN h
    ELSE fnv32aLow((Xor(h, Head(b)) * Fnv32Prime) % 65536, Tail(b))

shardIndex(b) == fnv32aLow(Fnv32Off, b) % shardCount

\* index of the first '\n' of d at or after i, or len(d)
RECURSIVE nextNL(_, _)
nextNL(d, i) == IF i < Len(d) /\ d[i + 1] # NL THEN nextNL(d, i + 1) ELSE i

\* fastParseFloat = strconv.ParseFloat(string(b), 64), for texts made of
\* digits, sign, '.', and bytes that belong to no number: an optional sign,
\* then digits with at most one '.', at least one digit.  The value is kept
\* in tenths (exact for at most one fractional digit).
fastParseFloat(b) ==
    LET signed == b # <<>> /\ b[1] \in {MINUS, PLUS}
        body   == IF signed THEN Tail(b) ELSE b
        dots   == {k \in 1..Len(body) : body[k] = DOT}
        digs   == {k \in 1..Len(body) : IsDigit(body[k])}
        ok     == /\ digs # {}
                  /\ Cardinality(dots) <= 1
                  /\ dots \cup digs = 1..Len(body)
        intEnd == IF dots = {} THEN Len(body) ELSE (CHOOSE k \in dots : TRUE) - 1
        int    == intDigits(SubSeq(body, 1, intEnd), 0, 0).intPart
        frac   == IF intEnd + 2 <= Len(body) THEN body[intEnd + 2] - ZERO ELSE 0
        mag    == int * 10 + frac
    IN  [err |-> ~ok,
         v   |-> IF ~ok THEN 0 ELSE IF signed /\ b[1] = MINUS THEN -mag ELSE mag]

\* m[station] updated with v
vAggregate(m, station, v) ==
    IF Has(m, station)
    THEN LET st == Get(m, station)
         IN  Put(m, station, Stat(IF v < st.min THEN v ELSE st.min,
                                  IF v > st.max THEN v ELSE st.max,
                                  st.sum + v, st.count + 1))
    ELSE Put(m, station, Stat(v, v, v, 1))

\* the scan of a shard file by its goroutine: the map it sends
RECURSIVE scanShard(_, _, _)
scanShard(raw, start, m) ==
    LET i == nextNL(raw, start)
    IN  IF i >= Len(raw) THEN m
        ELSE LET line == Slice(raw, start, i)
                 sep  == findSep(line)
                 f    == fastParseFloat(Slice(line, sep + 1, Len(line)))
             IN  IF sep <= 0 \/ f.err THEN scanShard(raw, i + 1, m)
                 ELSE scanShard(raw, i + 1, vAggregate(m, Slice(line, 0, sep), f.v))

\* a received shard map folded into final, entry by entry
RECURSIVE vMergeMap(_, _)
vMergeMap(final, m) ==
    IF DOMAIN m = {} THEN final
    ELSE LET station == CHOOSE k \in DOMAIN m : TRUE
             st      == m[station]
             rest    == [k \in DOMAIN m \ {station} |-> m[k]]
             merged1 == IF Has(final, station)
                        THEN LET ex == Get(final, station)
                             IN  Put(final, station,
                                     Stat(IF st.min < ex.min THEN st.min ELSE ex.min,
                                          IF st.max > ex.max THEN st.max ELSE ex.max,
                                          ex.sum + st.sum, ex.count + st.count))
                        ELSE Put(final, station, st)
         IN  vMergeMap(merged1, rest)

(***************************************************************************)
(* part_001: helpers                                                       *)
(***************************************************************************)
\* lineChan := make(chan []byte, 100000)
lineChanCap == 100000

\* reader.ReadBytes('\n') at offset pos: the bytes up to and including the
\* next '\n'; at the end of the file the rest (maybe empty) and err = io.EOF
RECURSIVE readTo(_, _)
readTo(d, i) == IF i < Len(d) /\ d[i + 1] # NL THEN readTo(d, i + 1) ELSE i

ReadBytes(d, pos) ==
    LET i == readTo(d, pos)
    IN  IF i < Len(d)
        THEN [line |-> Slice(d, pos, i + 1), err |-> FALSE, pos |-> i + 1]
        ELSE [line |-> Slice(d, pos, Len(d)), err |-> TRUE, pos |-> Len(d)]

\* strip newline
stripNL(line) ==
    IF line # <<>> /\ line[Len(line)] = NL THEN Slice(line, 0, Len(line) - 1) ELSE line

\* the loop that finds ';' in a line: sep, or -1
RECURSIVE sepFrom(_, _)
sepFrom(line, i) ==
    IF i >= Len(line) THEN -1
    ELSE IF line[i + 1] = SEMI THEN i
    ELSE sepFrom(line, i + 1)

\* strconv.ParseFloat(string(valBytes), 64), the call fastParseFloat of
\* go_v1 makes as well
ParseFloat(valBytes) == fastParseFloat(valBytes)

\* (mutant) a line whose value does not parse is aggregated as 0
processLineErrAsZero(m, line) ==
    LET sep     == sepFrom(line, 0)
        station == Slice(line, 0, sep)
        f       == ParseFloat(Slice(line, sep + 1, Len(line)))
    IN  IF Len(line) = 0 THEN m
        ELSE IF sep = -1 THEN m
        ELSE IF ~Has(m, station) THEN Put(m, station, Stat(f.v, f.v, f.v, 1))
        ELSE LET st == Get(m, station)
             IN  Put(m, station, Stat(IF f.v < st.min THEN f.v ELSE st.min,
                                      IF f.v > st.max THEN f.v ELSE st.max,
                                      st.sum + f.v, st.count + 1))

\* the body of `for line := range lineChan` for one line: local afterwards
processLine(m, line) ==
    LET sep     == sepFrom(line, 0)
        station == Slice(line, 0, sep)
        f       == ParseFloat(Slice(line, sep + 1, Len(line)))
    IN  IF Len(line) = 0 THEN m
        ELSE IF sep = -1 THEN m
        ELSE IF f.err THEN m
        ELSE IF ~Has(m, station) THEN Put(m, station, Stat(f.v, f.v, f.v, 1))
        ELSE LET st == Get(m, station)
             IN  Put(m, station, Stat(IF f.v < st.min THEN f.v ELSE st.min,
                                      IF f.v > st.max THEN f.v ELSE st.max,
                                      st.sum + f.v, st.count + 1))

\* a received partial map folded into final, entry by entry
RECURSIVE mergePartial(_, _)
mergePartial(fin, partial) ==
    IF DOMAIN partial = {} THEN fin
    ELSE LET station == CHOOSE k \in DOMAIN partial : TRUE
             pp      == partial[station]
             rest    == [k \in DOMAIN partial \ {station} |-> partial[k]]
             fin1    == IF ~Has(fin, station) THEN Put(fin, station, pp)
                        ELSE LET st == Get(fin, station)
                             IN  Put(fin, station,
                                     Stat(IF pp.min < st.min THEN pp.min ELSE st.min,
                                          IF pp.max > st.max THEN pp.max ELSE st.max,
                                          st.sum + pp.sum, st.count + pp.count))
         IN  mergePartial(fin1, rest)

(***************************************************************************)
(* State                                                                   *)
(***************************************************************************)
VARIABLES
    data,       \* the file (mmap'ed or read)
    workers,    \* the worker count
    sched,      \* how the goroutines are scheduled: "inorder" or "any"
    \* ---- part_000 ----
    mpc,        \* position of main: "dispatch", "wait", "merge", "print", "done"
    mi,         \* loop index of main (dispatch loop, then merge loop)
    wstart,     \* wstart[w], wend[w]: the s, e handed to goroutine w
    wend,
    wpc,        \* position of goroutine w
    wi,         \* i of parseChunkIDs
    wkey,       \* b of the GetOrAdd call in progress
    wten,       \* tenth of the line being aggregated
    wids,       \* ids read under the shard's read lock
    wid,        \* id taken under namesMu
    wm,         \* m of the goroutine
    locals,     \* locals[idx]; a nil map reads as the empty map
    names,      \* in.names
    shm,        \* the shard maps: hash -> list of ids (the shard is ShardOf(hash))
    namesMu,    \* holder of in.namesMu, or -1
    global,     \* the merged map
    merged,     \* ids of locals[mi] the merge loop has already visited
    printed,    \* the records written by the output loop
    yielded,    \* history: the (key, tenth) pairs goroutine w aggregated, in order
    returned,   \* history: the (key, id) pairs GetOrAdd returned, each with seen
    wseen,      \* history: the ids GetOrAdd had returned for the key of the call
                \* of goroutine w before that call began
    \* ---- part_002 ----
    opc,        \* position of main: "off", "run", "merge", "done"
    owks,       \* wks
    odone,      \* goroutines that have called wg.Done
    olocals,    \* locals
    oglobal,    \* global
    omi,        \* index of the merge loop over locals
    omerged,    \* keys of locals[omi] the merge loop has already visited
    \* ---- go_v1 ----
    vpc,        \* position of main: "off", "shard", "dispatch", "merge", "done"
    ncpu,       \* runtime.NumCPU()
    lineStart,  \* lineStart of Phase 1
    shardBuf,   \* shardBuf[0..31]
    shardFiles, \* the contents of the shard files
    vs,         \* s of the Phase 2 loop
    sem,        \* number of tokens in the channel sem
    vgo,        \* position of goroutine idx: "none", "run", "sent", "done"
    out,        \* the buffered channel out: the maps sent and not yet received
    closed,     \* out is closed
    final,      \* the merged map
    vrecv,      \* history: the number of maps the merge loop has received
    \* ---- part_001 ----
    lpc,        \* position of main: "off", "merge", "done"
    rpc,        \* position of the reader goroutine: "read", "eof", "done"
    rpos,       \* offset of reader in the file
    lineChan,   \* the buffered channel lineChan: lines sent and not yet received
    lineClosed, \* lineChan is closed
    lwpc,       \* position of worker w: "range", "send", "sent", "done"
    local,      \* local of worker w
    lgot,       \* history: the lines the workers have received, in order
    resultChan, \* the buffered channel resultChan
    resultClosed, \* resultChan is closed
    lfinal,     \* final
    lrecv       \* history: the number of maps the merge loop has received

varsA == <<mpc, mi, wstart, wend, wpc, wi, wkey, wten, wids, wid, wm, locals,
           names, shm, namesMu, global, merged, printed, yielded, returned, wseen>>

varsO == <<opc, owks, odone, olocals, oglobal, omi, omerged>>

varsV == <<vpc, ncpu, lineStart, shardBuf, shardFiles, vs, sem, vgo, out, closed, final,
           vrecv>>

varsL == <<lpc, rpc, rpos, lineChan, lineClosed, lwpc, local, lgot, resultChan,
           resultClosed, lfinal, lrecv>>

vars == <<data, workers, sched, varsA, varsO, varsV, varsL>>

\* the variables of the other programs
notA == <<varsO, varsV, varsL>>
notO == <<sched, varsA, varsV, varsL>>
notV == <<workers, varsA, varsO, varsL>>
notL == <<sched, varsA, varsO, varsV>>

Shards == 0..(shardCount - 1)

Workers == 0..(workers - 1)

\* in.names[id]
Name(id) == names[id + 1]

\* the slice data[s:e] of goroutine w
BufOf(w) == Slice(data, wstart[w], wend[w])

InitA ==
    /\ mpc = "dispatch"
    /\ mi = 0
    /\ wstart = [w \in Workers |-> 0]
    /\ wend = [w \in Workers |-> 0]
    /\ wpc = [w \in Workers |-> "idle"]
    /\ wi = [w \in Workers |-> 0]
    /\ wkey = [w \in Workers |-> <<>>]
    /\ wten = [w \in Workers |-> 0]
    /\ wids = [w \in Workers |-> <<>>]
    /\ wid = [w \in Workers |-> 0]
    /\ wm = [w \in Workers |-> EmptyMap]
    /\ locals = [w \in Workers |-> EmptyMap]
    /\ names = <<>>
    /\ shm = EmptyMap
    /\ namesMu = -1
    /\ global = EmptyMap
    /\ merged = {}
    /\ printed = EmptyMap
    /\ yielded = [w \in Workers |-> <<>>]
    /\ returned = {}
    /\ wseen = [w \in Workers |-> {}]

\* part_000 not running
OffA ==
    /\ mpc = "off"
    /\ mi = 0
    /\ wstart = <<>> /\ wend = <<>> /\ wpc = <<>> /\ wi = <<>> /\ wkey = <<>>
    /\ wten = <<>> /\ wids = <<>> /\ wid = <<>> /\ wm = <<>> /\ locals = <<>>
    /\ names = <<>> /\ shm = EmptyMap /\ namesMu = -1 /\ global = EmptyMap
    /\ merged = {} /\ printed = EmptyMap /\ yielded = <<>> /\ returned = {}
    /\ wseen = <<>>

InitO ==
    /\ opc = "run"
    /\ owks = wksOf(Len(data), workers)
    /\ odone = {}
    /\ olocals = [w \in Workers |-> EmptyMap]
    /\ oglobal = EmptyMap
    /\ omi = 0
    /\ omerged = {}

InitV ==
    /\ vpc = "shard"
    /\ lineStart = 0
    /\ shardBuf = [i \in Shards |-> <<>>]
    /\ shardFiles = [i \in Shards |-> <<>>]
    /\ vs = 0
    /\ sem = 0
    /\ vgo = [i \in Shards |-> "none"]
    /\ out = <<>>
    /\ closed = FALSE
    /\ final = EmptyMap
    /\ vrecv = 0

\* go_v1 not running
OffV ==
    /\ vpc = "off"
    /\ ncpu = 1
    /\ lineStart = 0
    /\ shardBuf = <<>>
    /\ shardFiles = <<>>
    /\ vs = 0
    /\ sem = 0
    /\ vgo = <<>>
    /\ out = <<>>
    /\ closed = FALSE
    /\ final = EmptyMap
    /\ vrecv = 0

\* part_002 not running
OffO ==
    /\ opc = "off"
    /\ owks = <<>>
    /\ odone = {}
    /\ olocals = <<>>
    /\ oglobal = EmptyMap
    /\ omi = 0
    /\ omerged = {}

\* part_001: the goroutines are started, main is about to range over resultChan
InitL ==
    /\ lpc = "merge"
    /\ rpc = "read"
    /\ rpos = 0
    /\ lineChan = <<>>
    /\ lineClosed = FALSE
    /\ lwpc = [w \in Workers |-> "range"]
    /\ local = [w \in Workers |-> EmptyMap]
    /\ lgot = <<>>
    /\ resultChan = <<>>
    /\ resultClosed = FALSE
    /\ lfinal = EmptyMap
    /\ lrecv = 0

\* part_001 not running
OffL ==
    /\ lpc = "off"
    /\ rpc = "done"
    /\ rpos = 0
    /\ lineChan = <<>>
    /\ lineClosed = FALSE
    /\ lwpc = <<>>
    /\ local = <<>>
    /\ lgot = <<>>
    /\ resultChan = <<>>
    /\ resultClosed = FALSE
    /\ lfinal = EmptyMap
    /\ lrecv = 0

(***************************************************************************)
(* part_000: main                                                          *)
(***************************************************************************)
\* one iteration of the dispatch loop: compute start and end, start goroutine i
Dispatch ==
    /\ mpc = "dispatch"
    /\ wstart' = [wstart EXCEPT ![mi] = startOf(data, workers, mi)]
    /\ wend' = [wend EXCEPT ![mi] = endOf(data, workers, mi)]
    /\ wpc' = [wpc EXCEPT ![mi] = "scan"]
    /\ mi' = mi + 1
    /\ mpc' = IF mi + 1 = workers THEN "wait" ELSE "dispatch"
    /\ UNCHANGED notA
    /\ UNCHANGED <<data, workers, sched, wseen, wi, wkey, wten, wids, wid, wm, locals, names, shm,
                   namesMu, global, merged, printed, yielded, returned>>

\* (mutant) main goes on to the merge without waiting for the goroutines
WaitNoBarrier ==
    /\ mpc = "wait"
    /\ mpc' = "merge"
    /\ mi' = 0
    /\ merged' = {}
    /\ UNCHANGED notA
    /\ UNCHANGED <<data, workers, sched, wseen, wstart, wend, wpc, wi, wkey, wten, wids, wid, wm,
                   locals, names, shm, namesMu, global, printed, yielded, returned>>

\* wg.Wait() returns once every goroutine has called wg.Done
Wait ==
    /\ mpc = "wait"
    /\ \A w \in Workers : wpc[w] = "done"
    /\ mpc' = "merge"
    /\ mi' = 0
    /\ merged' = {}
    /\ UNCHANGED notA
    /\ UNCHANGED <<data, workers, sched, wseen, wstart, wend, wpc, wi, wkey, wten, wids, wid, wm,
                   locals, names, shm, namesMu, global, printed, yielded, returned>>

\* for id, st := range m: one entry, in the order the map iteration gives
MergeEntry ==
    /\ mpc = "merge"
    /\ mi < workers
    /\ \E id \in DOMAIN locals[mi] \ merged :
          /\ global' = mergeEntry(global, id, locals[mi][id])
          /\ merged' = merged \cup {id}
    /\ UNCHANGED notA
    /\ UNCHANGED <<data, workers, sched, wseen, mpc, mi, wstart, wend, wpc, wi, wkey, wten, wids,
                   wid, wm, locals, names, shm, namesMu, printed, yielded, returned>>

\* for _, m := range locals: the next local map, or the end of the merge
MergeNext ==
    /\ mpc = "merge"
    /\ \/ /\ mi < workers
          /\ DOMAIN locals[mi] \ merged = {}
          /\ mi' = mi + 1
          /\ mpc' = mpc
       \/ /\ mi = workers
          /\ mpc' = "print"
          /\ mi' = mi
    /\ merged' = {}
    /\ UNCHANGED notA
    /\ UNCHANGED <<data, workers, sched, wseen, wstart, wend, wpc, wi, wkey, wten, wids, wid, wm,
                   locals, names, shm, namesMu, global, printed, yielded, returned>>

\* the output loop: one record per id of global
Output ==
    /\ mpc = "print"
    /\ printed' = [id \in DOMAIN global |-> [name |-> Name(id), st |-> global[id]]]
    /\ mpc' = "done"
    /\ UNCHANGED notA
    /\ UNCHANGED <<data, workers, sched, wseen, mi, wstart, wend, wpc, wi, wkey, wten, wids, wid,
                   wm, locals, names, shm, namesMu, global, merged, yielded, returned>>

(***************************************************************************)
(* part_000: goroutine w = parseChunkIDs(data[s:e], m, intern)             *)
(***************************************************************************)
\* sched = "any": a started goroutine may take a step at any time.
\* sched = "inorder": the goroutines run one after the other in index order
\* once all are started (one of the schedules the runtime may choose).
Runnable(w) ==
    /\ mpc # "off"
    /\ \/ sched = "any"
       \/ mpc = "wait" /\ \A v \in Workers : v < w => wpc[v] = "done"

\* GetOrAdd returned id: aggregate the line and go on with the next one
Return(w, id) ==
    /\ wm' = [wm EXCEPT ![w] = aggregate(wm[w], id, wten[w])]
    /\ yielded' = [yielded EXCEPT ![w] = Append(@, [key |-> wkey[w], tenth |-> wten[w]])]
    /\ returned' = returned \cup {[key |-> wkey[w], id |-> id, seen |-> wseen[w]]}
    /\ wpc' = [wpc EXCEPT ![w] = "scan"]

\* scan one line up to the call of GetOrAdd; at the end of the buffer
\* locals[idx] = m and wg.Done()
ScanLine(w) ==
    /\ Runnable(w)
    /\ wpc[w] = "scan"
    /\ LET r == scanLine(BufOf(w), wi[w])
       IN  IF wi[w] < Len(BufOf(w)) /\ r.found
           THEN /\ wi' = [wi EXCEPT ![w] = r.i]
                /\ wkey' = [wkey EXCEPT ![w] = r.key]
                /\ wten' = [wten EXCEPT ![w] = r.tenth]
                /\ wseen' = [wseen EXCEPT ![w] = {q.id : q \in {x \in returned : x.key = r.key}}]
                /\ wpc' = [wpc EXCEPT ![w] = "rlock"]
                /\ UNCHANGED locals
           ELSE /\ locals' = [locals EXCEPT ![w] = wm[w]]
                /\ wpc' = [wpc EXCEPT ![w] = "done"]
                /\ UNCHANGED <<wi, wkey, wten, wseen>>
    /\ UNCHANGED notA
    /\ UNCHANGED <<data, workers, sched, mpc, mi, wstart, wend, wids, wid, wm, names, shm,
                   namesMu, global, merged, printed, yielded, returned>>

\* sh.mu.RLock(); ids := sh.m[h]; sh.mu.RUnlock()
ReadIds(w) ==
    /\ Runnable(w)
    /\ wpc[w] = "rlock"
    /\ LET h == fnv1a64(wkey[w])
       IN  wids' = [wids EXCEPT ![w] = IF Has(shm, h) THEN shm[h] ELSE <<>>]
    /\ wpc' = [wpc EXCEPT ![w] = "cmp"]
    /\ UNCHANGED notA
    /\ UNCHANGED <<data, workers, sched, wseen, mpc, mi, wstart, wend, wi, wkey, wten, wid, wm,
                   locals, names, shm, namesMu, global, merged, printed, yielded,
                   returned>>

\* for _, id := range ids { if equalSB(in.names[id], b) { return id } }
\* in.names is read here without namesMu.  While another goroutine is inside
\* the namesMu section (it grows and reassigns in.names) the read is a data
\* race: the reader may see the grown slice before its elements are visible,
\* so a comparison that should succeed may also fail.
Compare(w) ==
    /\ Runnable(w)
    /\ wpc[w] = "cmp"
    /\ LET hits == {k \in 1..Len(wids[w]) : equalSB(Name(wids[w][k]), wkey[w])}
           racing == \E v \in Workers : v # w /\ wpc[v] = "append"
       IN  \/ /\ hits # {}
              /\ Return(w, wids[w][CHOOSE k \in hits : \A j \in hits : k <= j])
           \/ /\ hits = {} \/ racing
              /\ wpc' = [wpc EXCEPT ![w] = "nlock"]
              /\ UNCHANGED <<wm, yielded, returned>>
    /\ UNCHANGED notA
    /\ UNCHANGED <<data, workers, sched, wseen, mpc, mi, wstart, wend, wi, wkey, wten, wids, wid,
                   locals, names, shm, namesMu, global, merged, printed>>

\* in.namesMu.Lock()
NamesLock(w) ==
    /\ Runnable(w)
    /\ wpc[w] = "nlock"
    /\ namesMu = -1
    /\ namesMu' = w
    /\ wpc' = [wpc EXCEPT ![w] = "append"]
    /\ UNCHANGED notA
    /\ UNCHANGED <<data, workers, sched, wseen, mpc, mi, wstart, wend, wi, wkey, wten, wids, wid,
                   wm, locals, names, shm, global, merged, printed, yielded, returned>>

\* id := int32(len(in.names)); in.names = append(in.names, s); in.namesMu.Unlock()
NamesAppend(w) ==
    /\ Runnable(w)
    /\ wpc[w] = "append"
    /\ wid' = [wid EXCEPT ![w] = Len(names)]
    /\ names' = Append(names, wkey[w])
    /\ namesMu' = -1
    /\ wpc' = [wpc EXCEPT ![w] = "wlock"]
    /\ UNCHANGED notA
    /\ UNCHANGED <<data, workers, sched, wseen, mpc, mi, wstart, wend, wi, wkey, wten, wids, wm,
                   locals, shm, global, merged, printed, yielded, returned>>

\* sh.mu.Lock(); sh.m[h] = append(ids, id); sh.mu.Unlock(); return id
ShardInsert(w) ==
    /\ Runnable(w)
    /\ wpc[w] = "wlock"
    /\ shm' = Put(shm, fnv1a64(wkey[w]), Append(wids[w], wid[w]))
    /\ Return(w, wid[w])
    /\ UNCHANGED notA
    /\ UNCHANGED <<data, workers, sched, wseen, mpc, mi, wstart, wend, wi, wkey, wten, wids, wid,
                   locals, names, namesMu, global, merged, printed>>


(***************************************************************************)
(* part_002: main and its goroutines                                       *)
(***************************************************************************)
\* goroutine i, from `go func()` to wg.Done: it shares nothing with the
\* other goroutines but its own slot locals[i]
OWorker(i) ==
    /\ opc = "run"
    /\ i \notin odone
    /\ olocals' = [olocals EXCEPT ![i] = workerLocal(data, owks[i + 1])]
    /\ odone' = odone \cup {i}
    /\ UNCHANGED <<data, workers, opc, owks, oglobal, omi, omerged>>
    /\ UNCHANGED notO

\* wg.Wait()
OWait ==
    /\ opc = "run"
    /\ odone = Workers
    /\ opc' = "merge"
    /\ omi' = 0
    /\ omerged' = {}
    /\ UNCHANGED <<data, workers, owks, odone, olocals, oglobal>>
    /\ UNCHANGED notO

\* for city, st := range m: one entry
OMergeEntry ==
    /\ opc = "merge"
    /\ omi < workers
    /\ \E city \in DOMAIN olocals[omi] \ omerged :
          /\ oglobal' = oMergeEntry(oglobal, city, olocals[omi][city])
          /\ omerged' = omerged \cup {city}
    /\ UNCHANGED <<data, workers, opc, owks, odone, olocals, omi>>
    /\ UNCHANGED notO

\* for _, m := range locals: the next local map, or the end of main
OMergeNext ==
    /\ opc = "merge"
    /\ \/ /\ omi < workers
          /\ DOMAIN olocals[omi] \ omerged = {}
          /\ omi' = omi + 1
          /\ opc' = opc
       \/ /\ omi = workers
          /\ opc' = "done"
          /\ omi' = omi
    /\ omerged' = {}
    /\ UNCHANGED <<data, workers, owks, odone, olocals, oglobal>>
    /\ UNCHANGED notO


(***************************************************************************)
(* go_v1: main and the shard goroutines                                    *)
(***************************************************************************)
\* (mutant) the shard is chosen by the hash of the whole line
ShardLineHashesLine ==
    /\ vpc = "shard"
    /\ LET i    == nextNL(data, lineStart)
           line == Slice(data, lineStart, i)
           sep  == findSep(line)
       IN  /\ i < Len(data)
           /\ lineStart' = i + 1
           /\ shardBuf' =
                 IF Len(line) = 0 \/ sep <= 0 THEN shardBuf
                 ELSE [shardBuf EXCEPT ![shardIndex(line)] = @ \o line \o <<NL>>]
    /\ UNCHANGED <<data, sched, vrecv, vpc, ncpu, shardFiles, vs, sem, vgo, out, closed, final>>
    /\ UNCHANGED notV

\* Phase 1, from one '\n' of data to the next: the line before it is
\* appended to its shard buffer, unless it is empty or has no ';' after a
\* non-empty station
ShardLine ==
    /\ vpc = "shard"
    /\ LET i    == nextNL(data, lineStart)
           line == Slice(data, lineStart, i)
           sep  == findSep(line)
       IN  /\ i < Len(data)
           /\ lineStart' = i + 1
           /\ shardBuf' =
                 IF Len(line) = 0 \/ sep <= 0 THEN shardBuf
                 ELSE [shardBuf EXCEPT ![shardIndex(Slice(line, 0, sep))] =
                          @ \o line \o <<NL>>]
    /\ UNCHANGED <<data, sched, vrecv, vpc, ncpu, shardFiles, vs, sem, vgo, out, closed, final>>
    /\ UNCHANGED notV

\* the Phase 1 loop has reached len(data); the shard buffers are written
WriteShards ==
    /\ vpc = "shard"
    /\ nextNL(data, lineStart) >= Len(data)
    /\ shardFiles' = shardBuf
    /\ vpc' = "dispatch"
    /\ UNCHANGED <<data, sched, vrecv, ncpu, lineStart, shardBuf, vs, sem, vgo, out, closed, final>>
    /\ UNCHANGED notV

\* sched = "inorder": a goroutine runs to its end before main goes on
VMainRunnable == sched = "any" \/ \A i \in Shards : vgo[i] \in {"none", "done"}

\* (mutant) the goroutine is started without waiting for a slot of sem
VDispatchNoSlot ==
    /\ vpc = "dispatch"
    /\ VMainRunnable
    /\ vs < shardCount
    /\ sem' = sem + 1
    /\ vgo' = [vgo EXCEPT ![vs] = "run"]
    /\ vs' = vs + 1
    /\ UNCHANGED <<data, sched, vrecv, vpc, ncpu, lineStart, shardBuf, shardFiles, out, closed, final>>
    /\ UNCHANGED notV

\* one iteration of the Phase 2 loop: wg.Add(1); sem <- struct{}{}; go func(s)
VDispatch ==
    /\ vpc = "dispatch"
    /\ VMainRunnable
    /\ vs < shardCount
    /\ sem < ncpu
    /\ sem' = sem + 1
    /\ vgo' = [vgo EXCEPT ![vs] = "run"]
    /\ vs' = vs + 1
    /\ UNCHANGED <<data, sched, vrecv, vpc, ncpu, lineStart, shardBuf, shardFiles, out, closed, final>>
    /\ UNCHANGED notV

\* the loop is over: main starts the waiter and enters the merge loop
VLoopEnd ==
    /\ vpc = "dispatch"
    /\ VMainRunnable
    /\ vs = shardCount
    /\ vpc' = "merge"
    /\ UNCHANGED <<data, sched, vrecv, ncpu, lineStart, shardBuf, shardFiles, vs, sem, vgo, out,
                   closed, final>>
    /\ UNCHANGED notV

\* (mutant) out is made with room for runtime.NumCPU() maps
OutHasRoomForNumCPU == Len(out) < ncpu

\* out := make(chan ShardOut, shardCount): a send on out goes through when
\* fewer than shardCount maps are in the channel
OutHasRoom == Len(out) < shardCount

\* goroutine idx reads its shard file, aggregates it and sends the map
VAggregate(idx) ==
    /\ vpc # "off"
    /\ vgo[idx] = "run"
    /\ OutHasRoom
    /\ out' = Append(out, scanShard(shardFiles[idx], 0, EmptyMap))
    /\ vgo' = [vgo EXCEPT ![idx] = "sent"]
    /\ UNCHANGED <<data, sched, vrecv, vpc, ncpu, lineStart, shardBuf, shardFiles, vs, sem, closed,
                   final>>
    /\ UNCHANGED notV

\* the deferred calls of goroutine idx: <-sem, then wg.Done()
VFinish(idx) ==
    /\ vpc # "off"
    /\ vgo[idx] = "sent"
    /\ sem' = sem - 1
    /\ vgo' = [vgo EXCEPT ![idx] = "done"]
    /\ UNCHANGED <<data, sched, vrecv, vpc, ncpu, lineStart, shardBuf, shardFiles, vs, out, closed,
                   final>>
    /\ UNCHANGED notV

\* the waiter: wg.Wait(); close(out)
VClose ==
    /\ vpc = "merge"
    /\ ~closed
    /\ \A i \in Shards : vgo[i] = "done"
    /\ closed' = TRUE
    /\ UNCHANGED <<data, sched, vrecv, vpc, ncpu, lineStart, shardBuf, shardFiles, vs, sem, vgo, out,
                   final>>
    /\ UNCHANGED notV

\* for sh := range out: one map received and merged into final
VReceive ==
    /\ vpc = "merge"
    /\ out # <<>>
    /\ final' = vMergeMap(final, Head(out))
    /\ out' = Tail(out)
    /\ vrecv' = vrecv + 1
    /\ UNCHANGED <<data, sched, vpc, ncpu, lineStart, shardBuf, shardFiles, vs, sem, vgo,
                   closed>>
    /\ UNCHANGED notV

\* out is closed and drained: the merge loop ends
VMergeEnd ==
    /\ vpc = "merge"
    /\ out = <<>>
    /\ closed
    /\ vpc' = "done"
    /\ UNCHANGED <<data, sched, vrecv, ncpu, lineStart, shardBuf, shardFiles, vs, sem, vgo, out,
                   closed, final>>
    /\ UNCHANGED notV

(***************************************************************************)
(* part_001: reader, workers, closer and main                              *)
(***************************************************************************)
\* resultChan := make(chan map[string]Stats, runtime.NumCPU()), and
\* workerCount = runtime.NumCPU()
ResultChanHasRoom == Len(resultChan) < workers

\* lineChan := make(chan []byte, 100000)
LineChanHasRoom == Len(lineChan) < lineChanCap

\* one iteration of the reader loop: ReadBytes, and the line, if not empty,
\* stripped of its newline and sent on lineChan
LRead ==
    /\ lpc # "off"
    /\ rpc = "read"
    /\ LET r == ReadBytes(data, rpos)
       IN  /\ rpos' = r.pos
           /\ IF Len(r.line) > 0
              THEN /\ LineChanHasRoom
                   /\ lineChan' = Append(lineChan, stripNL(r.line))
              ELSE UNCHANGED lineChan
           /\ rpc' = IF r.err THEN "eof" ELSE "read"
    /\ UNCHANGED <<data, workers, lpc, lineClosed, lwpc, local, lgot, resultChan,
                   resultClosed, lfinal, lrecv>>
    /\ UNCHANGED notL

\* the reader has left its loop: close(lineChan)
LCloseLines ==
    /\ lpc # "off"
    /\ rpc = "eof"
    /\ lineClosed' = TRUE
    /\ rpc' = "done"
    /\ UNCHANGED <<data, workers, lpc, rpos, lineChan, lwpc, local, lgot, resultChan,
                   resultClosed, lfinal, lrecv>>
    /\ UNCHANGED notL

\* worker w receives one line from lineChan and processes it
LWorkerLine(w) ==
    /\ lpc # "off"
    /\ lwpc[w] = "range"
    /\ lineChan # <<>>
    /\ local' = [local EXCEPT ![w] = processLine(@, Head(lineChan))]
    /\ lgot' = Append(lgot, Head(lineChan))
    /\ lineChan' = Tail(lineChan)
    /\ UNCHANGED <<data, workers, lpc, rpc, rpos, lineClosed, lwpc, resultChan,
                   resultClosed, lfinal, lrecv>>
    /\ UNCHANGED notL

\* lineChan is closed and drained: the range loop of worker w ends
LWorkerLoopEnd(w) ==
    /\ lpc # "off"
    /\ lwpc[w] = "range"
    /\ lineChan = <<>>
    /\ lineClosed
    /\ lwpc' = [lwpc EXCEPT ![w] = "send"]
    /\ UNCHANGED <<data, workers, lpc, rpc, rpos, lineChan, lineClosed, local, lgot,
                   resultChan, resultClosed, lfinal, lrecv>>
    /\ UNCHANGED notL

\* resultChan <- local
LWorkerSend(w) ==
    /\ lpc # "off"
    /\ lwpc[w] = "send"
    /\ ResultChanHasRoom
    /\ resultChan' = Append(resultChan, local[w])
    /\ lwpc' = [lwpc EXCEPT ![w] = "sent"]
    /\ UNCHANGED <<data, workers, lpc, rpc, rpos, lineChan, lineClosed, local, lgot,
                   resultClosed, lfinal, lrecv>>
    /\ UNCHANGED notL

\* the deferred wg.Done() of worker w
LWorkerDone(w) ==
    /\ lpc # "off"
    /\ lwpc[w] = "sent"
    /\ lwpc' = [lwpc EXCEPT ![w] = "done"]
    /\ UNCHANGED <<data, workers, lpc, rpc, rpos, lineChan, lineClosed, local, lgot,
                   resultChan, resultClosed, lfinal, lrecv>>
    /\ UNCHANGED notL

\* the closer: wg.Wait(); close(resultChan)
LCloseResults ==
    /\ lpc # "off"
    /\ ~resultClosed
    /\ \A w \in Workers : lwpc[w] = "done"
    /\ resultClosed' = TRUE
    /\ UNCHANGED <<data, workers, lpc, rpc, rpos, lineChan, lineClosed, lwpc, local, lgot,
                   resultChan, lfinal, lrecv>>
    /\ UNCHANGED notL

\* for partial := range resultChan: one map received and merged into final
LReceive ==
    /\ lpc = "merge"
    /\ resultChan # <<>>
    /\ lfinal' = mergePartial(lfinal, Head(resultChan))
    /\ resultChan' = Tail(resultChan)
    /\ lrecv' = lrecv + 1
    /\ UNCHANGED <<data, workers, lpc, rpc, rpos, lineChan, lineClosed, lwpc, local, lgot,
                   resultClosed>>
    /\ UNCHANGED notL

\* resultChan is closed and drained: the merge loop ends
LMergeEnd ==
    /\ lpc = "merge"
    /\ resultChan = <<>>
    /\ resultClosed
    /\ lpc' = "done"
    /\ UNCHANGED <<data, workers, rpc, rpos, lineChan, lineClosed, lwpc, local, lgot,
                   resultChan, resultClosed, lfinal, lrecv>>
    /\ UNCHANGED notL

(***************************************************************************)
(* Specifications of part_000                                              *)
(***************************************************************************)
Next ==
    \/ Dispatch
    \/ \E w \in Workers : ScanLine(w)
    \/ \E w \in Workers : ReadIds(w)
    \/ \E w \in Workers : Compare(w)
    \/ \E w \in Workers : NamesLock(w)
    \/ \E w \in Workers : NamesAppend(w)
    \/ \E w \in Workers : ShardInsert(w)
    \/ Wait
    \/ MergeEntry
    \/ MergeNext
    \/ Output

\* Spec: every input, the goroutines scheduled in index order.
Init ==
    /\ data \in Inputs
    /\ workers \in 1..MaxWorkers
    /\ sched = "inorder"
    /\ InitA
    /\ OffO
    /\ OffV
    /\ OffL

Spec == Init /\ [][Next]_vars

\* SpecIntern: few inputs, every interleaving of the goroutines and main.
InitIntern ==
    /\ data \in InputsI
    /\ workers \in 1..MaxWorkersI
    /\ sched = "any"
    /\ InitA
    /\ OffO
    /\ OffV
    /\ OffL

SpecIntern == InitIntern /\ [][Next]_vars

\* SpecCollide: keys of one hash, every interleaving.
InitCollide ==
    /\ data \in InputsH
    /\ workers \in 1..MaxWorkersH
    /\ sched = "any"
    /\ InitA
    /\ OffO
    /\ OffV
    /\ OffL

SpecCollide == InitCollide /\ [][Next]_vars

\* SpecParse: one line "A;<value>" for every value text, one worker.
InitParse ==
    /\ data \in InputsP
    /\ workers = 1
    /\ sched = "inorder"
    /\ InitA
    /\ OffO
    /\ OffV
    /\ OffL

SpecParse == InitParse /\ [][Next]_vars


(***************************************************************************)
(* Specification of part_002                                               *)
(***************************************************************************)
InitOverlap ==
    /\ data \in Inputs
    /\ workers \in 1..MaxWorkers
    /\ sched = "any"
    /\ OffA
    /\ InitO
    /\ OffV
    /\ OffL

NextOverlap ==
    \/ \E i \in Workers : OWorker(i)
    \/ OWait
    \/ OMergeEntry
    \/ OMergeNext

SpecOverlap == InitOverlap /\ [][NextOverlap]_vars

\* SpecBarrier: part_000 or part_002, every interleaving of the goroutines.
InitBarrier ==
    /\ data \in InputsH
    /\ workers \in 1..MaxWorkersH
    /\ sched = "any"
    /\ \/ InitA /\ OffO
       \/ OffA /\ InitO
    /\ OffV
    /\ OffL

NextBarrier ==
    \/ Dispatch
    \/ \E w \in Workers : ScanLine(w)
    \/ \E w \in Workers : ReadIds(w)
    \/ \E w \in Workers : Compare(w)
    \/ \E w \in Workers : NamesLock(w)
    \/ \E w \in Workers : NamesAppend(w)
    \/ \E w \in Workers : ShardInsert(w)
    \/ Wait
    \/ MergeEntry
    \/ MergeNext
    \/ Output
    \/ \E i \in Workers : OWorker(i)
    \/ OWait
    \/ OMergeEntry
    \/ OMergeNext

SpecBarrier == InitBarrier /\ [][NextBarrier]_vars

(***************************************************************************)
(* Specification of go_v1                                                  *)
(***************************************************************************)
InitShard ==
    /\ data \in InputsV
    /\ workers = 1
    /\ ncpu \in 1..MaxCPU
    /\ sched = "inorder"
    /\ OffA
    /\ OffO
    /\ InitV
    /\ OffL

NextShard ==
    \/ ShardLine
    \/ WriteShards
    \/ VDispatch
    \/ VLoopEnd
    \/ \E idx \in Shards : VAggregate(idx)
    \/ \E idx \in Shards : VFinish(idx)
    \/ VClose
    \/ VReceive
    \/ VMergeEnd

SpecShard == InitShard /\ [][NextShard]_vars

(***************************************************************************)
(* Specification of the channel programs: go_v1 Phase 2 and part_001       *)
(***************************************************************************)
\* SpecFanIn: go_v1 or part_001, every interleaving of main and the
\* goroutines.
InitFanIn ==
    /\ sched = "any"
    /\ OffA
    /\ OffO
    /\ \/ /\ data \in InputsC
          /\ workers = 1
          /\ ncpu \in 1..MaxCPUC
          /\ InitV
          /\ OffL
       \/ /\ data \in InputsL
          /\ workers \in 1..MaxCPUC
          /\ OffV
          /\ InitL

NextFanIn ==
    \/ ShardLine
    \/ WriteShards
    \/ VDispatch
    \/ VLoopEnd
    \/ \E idx \in Shards : VAggregate(idx)
    \/ \E idx \in Shards : VFinish(idx)
    \/ VClose
    \/ VReceive
    \/ VMergeEnd
    \/ LRead
    \/ LCloseLines
    \/ \E w \in Workers : LWorkerLine(w)
    \/ \E w \in Workers : LWorkerLoopEnd(w)
    \/ \E w \in Workers : LWorkerSend(w)
    \/ \E w \in Workers : LWorkerDone(w)
    \/ LCloseResults
    \/ LReceive
    \/ LMergeEnd

SpecFanIn == InitFanIn /\ [][NextFanIn]_vars

(***************************************************************************)
(* Reference definitions used by the properties (not taken from the code)  *)
(***************************************************************************)
\* the lines of buf: the pieces between '\n' bytes; a trailing '\n' ends the
\* last line and opens no further one
RECURSIVE SplitLines(_, _)
SplitLines(buf, acc) ==
    IF buf = <<>> THEN (IF acc = <<>> THEN <<>> ELSE <<acc>>)
    ELSE IF Head(buf) = NL
         THEN IF Tail(buf) = <<>> THEN <<acc>>
              ELSE <<acc>> \o SplitLines(Tail(buf), <<>>)
         ELSE SplitLines(Tail(buf), Append(acc, Head(buf)))

LinesOf(buf) == SplitLines(buf, <<>>)

HasSemi(line) == \E k \in 1..Len(line) : line[k] = SEMI

FirstSemi(line) == CHOOSE k \in 1..Len(line) :
                      line[k] = SEMI /\ \A j \in 1..(k - 1) : line[j] # SEMI

KeyOf(line) == SubSeq(line, 1, FirstSemi(line) - 1)
ValueOf(line) == SubSeq(line, FirstSemi(line) + 1, Len(line))

\* a value has a digit right after its optional sign
ValueParsable(v) ==
    LET j == IF v # <<>> /\ v[1] \in {MINUS, PLUS} THEN 2 ELSE 1
    IN  j <= Len(v) /\ IsDigit(v[j])

\* the elements of the sequence ls that are in the set S, in order
RECURSIVE Select(_, _)
Select(ls, S) ==
    IF ls = <<>> THEN <<>>
    ELSE IF Head(ls) \in S THEN <<Head(ls)>> \o Select(Tail(ls), S)
         ELSE Select(Tail(ls), S)

Elems(ls) == {ls[k] : k \in 1..Len(ls)}

PairOf(line) == [key |-> KeyOf(line), tenth |-> parseTemp(ValueOf(line), 0).tenth]

\* the pairs of the lines that have a ';'
SemiPairs(buf) ==
    LET all == LinesOf(buf)
        ls  == Select(all, {l \in Elems(all) : HasSemi(l)})
    IN  [k \in 1..Len(ls) |-> PairOf(ls[k])]

\* the pairs of the lines that have a ';' and a parsable value
GoodLine(line) == HasSemi(line) /\ ValueParsable(ValueOf(line))
GoodPairs(buf) ==
    LET all == LinesOf(buf)
        ls  == Select(all, {l \in Elems(all) : GoodLine(l)})
    IN  [k \in 1..Len(ls) |-> PairOf(ls[k])]

\* the sum of the values of the function f
RECURSIVE SumOf(_)
SumOf(f) ==
    IF DOMAIN f = {} THEN 0
    ELSE LET x == CHOOSE y \in DOMAIN f : TRUE
         IN  f[x] + SumOf([y \in DOMAIN f \ {x} |-> f[y]])

MinOf(S) == CHOOSE x \in S : \A y \in S : x <= y
MaxOf(S) == CHOOSE x \in S : \A y \in S : x >= y

TotalCount(m) == SumOf([k \in DOMAIN m |-> m[k].count])

\* a map keyed by id, re-keyed by the name of the id
ByName(g) ==
    [nm \in {Name(id) : id \in DOMAIN g} |->
        g[CHOOSE id \in DOMAIN g : Name(id) = nm]]

\* what one worker over the whole input aggregates, keyed by key bytes
RECURSIVE scanAll(_, _, _)
scanAll(buf, i, m) ==
    LET r == scanLine(buf, i)
    IN  IF i < Len(buf) /\ r.found
        THEN scanAll(buf, r.i, aggregate(m, r.key, r.tenth))
        ELSE m

SingleWorkerResult(d) == scanAll(Slice(d, startOf(d, 1, 0), endOf(d, 1, 0)), 0, EmptyMap)

Started(w) == wpc[w] # "idle"
Merged == mpc \in {"print", "done"}

(***************************************************************************)
(* Properties                                                              *)
(***************************************************************************)
\* C1: two GetOrAdd calls with byte-for-byte equal keys return the same
\* identifier, whichever goroutines made them and however they overlapped.
C1_EqualKeysSameId ==
    \A r1 \in returned : \A r2 \in returned : r1.key = r2.key => r1.id = r2.id

\* C2: the global mapping built by the merge holds one entry per distinct key
\* name: no two identifiers of global resolve to the same name.
C2_GlobalOneEntryPerKey ==
    Merged => \A a \in DOMAIN global : \A b \in DOMAIN global :
                  Name(a) = Name(b) => a = b

\* C3: the merged per-key min, max, sum and count equal those of a run with
\* one worker.
C3_SameAsOneWorker ==
    Merged => ByName(global) = SingleWorkerResult(data)

\* C4: the byte before the start of every non-empty slice of a worker i > 0
\* is a '\n'.
C4_StartAfterNewline ==
    \A w \in Workers :
        (w > 0 /\ Started(w) /\ wstart[w] < wend[w])
            => (wstart[w] > 0 /\ data[wstart[w]] = NL)

\* C5: the slices tile the input: worker 0 starts at 0, the last worker ends
\* at len(data), each end is the next start, and the slices concatenated in
\* worker order are data.
C5_SlicesTile ==
    mpc # "dispatch" =>
        /\ wstart[0] = 0
        /\ wend[workers - 1] = Len(data)
        /\ \A w \in Workers : w < workers - 1 => wend[w] = wstart[w + 1]
        /\ Concat([k \in 1..workers |-> BufOf(k - 1)]) = data

\* C6: every line with a ';' (a well-formed line, as the scanner takes it) is
\* aggregated by exactly one worker: the counts of the merged map add up to
\* the number of those lines of the file.
C6_CountIsLineCount ==
    opc = "done" => TotalCount(oglobal) = Len(SemiPairs(data))

\* C7: a line with a ';' and an unparsable value contributes nothing: a
\* finished scan has aggregated exactly the lines that have a ';' and a
\* parsable value.
C7_UnparsableValueSkipped ==
    \A w \in Workers : wpc[w] = "done" => yielded[w] = GoodPairs(BufOf(w))

\* C8: an empty line or a line without ';' is skipped and only that line: the
\* scan yields, in order and once each, the pairs of the lines of its buffer
\* that have a ';', the key being the bytes of that line before its first ';'.
C8_OnlyLinesWithoutSemiSkipped ==
    \A w \in Workers :
        (mpc = "wait" /\ wpc[w] = "done") =>
            /\ yielded[w] = SemiPairs(BufOf(w))
            /\ TotalCount(locals[w]) = Len(SemiPairs(BufOf(w)))

\* a finished scan of a buffer in which a line without ';' stands between two
\* lines that have one
C8_Witness ==
    \E w \in Workers :
        /\ wpc[w] = "done"
        /\ LET ls == LinesOf(BufOf(w))
           IN  \E a, b, c \in 1..Len(ls) :
                  a < b /\ b < c /\ HasSemi(ls[a]) /\ ~HasSemi(ls[b]) /\ HasSemi(ls[c])
        /\ Len(yielded[w]) >= 2

\* the last line of data when data does not end with '\n'
LastLine == Slice(data, lastNL(data, Len(data) - 1) + 1, Len(data))

UnterminatedGoodLast ==
    /\ data[Len(data)] # NL
    /\ findSep(LastLine) > 0
    /\ ~fastParseFloat(ValueOf(LastLine)).err

\* C9: a well-formed final line without a trailing '\n' is included: after
\* Phase 1 it is in the shard buffer of its station, and at the end its
\* station has an entry in final.
C9_LastLineIncluded ==
    UnterminatedGoodLast =>
        /\ vpc \notin {"off", "shard"} =>
               \E k \in 0..(Len(shardBuf[shardIndex(KeyOf(LastLine))]) - Len(LastLine)) :
                  Slice(shardBuf[shardIndex(KeyOf(LastLine))], k, k + Len(LastLine))
                      = LastLine
        /\ vpc = "done" => KeyOf(LastLine) \in DOMAIN final

\* C10: the merged map does not depend on the order of the fold: its keys are
\* the keys of the local maps and each entry has the least min, the greatest
\* max, the total sum and the total count of the local entries of its key
\* (an entry of a single local map is copied unchanged).
C10_MergeOrderFree ==
    Merged =>
        /\ DOMAIN global = UNION {DOMAIN locals[w] : w \in Workers}
        /\ \A id \in DOMAIN global :
              LET ws == {w \in Workers : id \in DOMAIN locals[w]}
              IN  /\ global[id].min = MinOf({locals[w][id].min : w \in ws})
                  /\ global[id].max = MaxOf({locals[w][id].max : w \in ws})
                  /\ global[id].sum = SumOf([w \in ws |-> locals[w][id].sum])
                  /\ global[id].count = SumOf([w \in ws |-> locals[w][id].count])
                  /\ \A w \in ws : ws = {w} => global[id] = locals[w][id]

\* a merged run in which one id has entries with different min in two local
\* maps and another id is in one local map only
C10_Witness ==
    /\ Merged
    /\ \E id \in DOMAIN global : \E v, w \in Workers :
          /\ v # w /\ id \in DOMAIN locals[v] /\ id \in DOMAIN locals[w]
          /\ locals[v][id].min # locals[w][id].min
    /\ \E id \in DOMAIN global :
          Cardinality({w \in Workers : id \in DOMAIN locals[w]}) = 1

\* the number a digit text denotes
RECURSIVE Pow10(_)
Pow10(n) == IF n = 0 THEN 1 ELSE 10 * Pow10(n - 1)

NumberOf(ds) == SumOf([k \in 1..Len(ds) |-> (ds[k] - ZERO) * Pow10(Len(ds) - k)])

\* the value of the text sg ds fr, in tenths
TenthsOf(sg, ds, fr) ==
    (IF sg = <<MINUS>> THEN -1 ELSE 1)
        * (10 * NumberOf(ds) + (IF fr = <<>> THEN 0 ELSE fr[2] - ZERO))

\* C11: for a value text [sign]digits['.'digit] the parser computes
\* sign * (10 * integer part + fractional digit), the digit being 0 when
\* absent, and the value written with one decimal parses to the same tenths.
C11_ValueInTenths ==
    \A sg \in Signs : \A ds \in IntTexts : \A fr \in FracTexts :
        (/\ Len(yielded[0]) = 1
         /\ ValueOf(LinesOf(data)[1]) = ValueText(sg, ds, fr))
            => /\ yielded[0][1].tenth = TenthsOf(sg, ds, fr)
               /\ parseTemp(fmtTenth(yielded[0][1].tenth), 0).tenth = yielded[0][1].tenth

\* the line "A;-0.5" has been scanned to its end and aggregated as -5
C11_Witness ==
    /\ wpc[0] = "done"
    /\ Len(yielded[0]) = 1
    /\ ValueOf(LinesOf(data)[1]) = Bytes(<<"-", "0", ".", "5">>)
    /\ yielded[0][1].tenth = -5

\* C12: an identifier is stable: a call of GetOrAdd(b) that begins after a
\* call of GetOrAdd(b) has returned id returns id as well, and does not reach
\* the append to in.names.
C12_IdStable ==
    /\ \A r \in returned : \A s \in r.seen : s = r.id
    /\ \A w \in Workers : wpc[w] \in {"append", "wlock"} => wseen[w] = {}

\* C13: the identifier GetOrAdd(b) returns resolves to b, so calls with
\* different keys never return the same identifier, keys of one hash in one
\* candidate list included.
C13_NameOfIdIsKey ==
    /\ \A r \in returned : Name(r.id) = r.key
    /\ \A r1 \in returned : \A r2 \in returned : r1.key # r2.key => r1.id # r2.id

\* two goroutines have interned two different keys of one hash, the second
\* after a lookup that found the first in the candidate list
C13_Witness ==
    \E r1 \in returned : \E r2 \in returned :
        /\ r1.key # r2.key
        /\ fnv1a64(r1.key) = fnv1a64(r2.key)
        /\ Has(shm, fnv1a64(r1.key))
        /\ shm[fnv1a64(r1.key)] = <<r1.id, r2.id>>
        /\ \E v \in Workers : \E w \in Workers :
              /\ v # w /\ yielded[v] # <<>> /\ yielded[w] # <<>>
              /\ yielded[v][1].key = r1.key /\ yielded[w][1].key = r2.key

\* C14: in.names is never read without synchronisation while it is written:
\* no goroutine is at the comparison in.names[id] of the lookup, with a
\* candidate to compare, while another one is inside the namesMu section
\* that appends to in.names.
C14_NoUnsynchronisedRead ==
    \A w \in Workers : \A v \in Workers :
        ~(v # w /\ wpc[w] = "cmp" /\ wids[w] # <<>> /\ wpc[v] = "append")

\* C15: the merge loop runs only after every goroutine has finished: while
\* main merges (or is past the merge) every goroutine has stored its map in
\* its slot of locals and called wg.Done, in part_000 and in part_002.
C15_MergeAfterAllWorkers ==
    /\ mpc \in {"merge", "print", "done"} =>
           \A w \in Workers : wpc[w] = "done" /\ locals[w] = wm[w]
    /\ opc \in {"merge", "done"} =>
           /\ odone = Workers
           /\ \A i \in Workers : olocals[i] = workerLocal(data, owks[i + 1])

\* the merge loop of part_000 has read an entry of the second of two local maps
C15_Witness ==
    /\ mpc = "merge"
    /\ workers = 2
    /\ mi = 1
    /\ merged # {}

\* the positions in yielded[w] of the values goroutine w observed for id
ObservedAt(w, id) == {k \in 1..Len(yielded[w]) : yielded[w][k].key = Name(id)}

\* C16: every accumulator of a local map has the count (>= 1), the sum, the
\* least and the greatest of the values observed for its identifier; after the
\* first observation v it is min = max = sum = v, count = 1.
C16_AccumulatorInvariant ==
    \A w \in Workers : \A id \in DOMAIN wm[w] :
        LET ks == ObservedAt(w, id)
            obs == {yielded[w][k].tenth : k \in ks}
            st == wm[w][id]
        IN  /\ st.count >= 1
            /\ st.count = Cardinality(ks)
            /\ st.sum = SumOf([k \in ks |-> yielded[w][k].tenth])
            /\ st.min = MinOf(obs)
            /\ st.max = MaxOf(obs)
            /\ st.min <= st.max
            /\ st.count * st.min <= st.sum /\ st.sum <= st.count * st.max
            /\ Cardinality(ks) = 1 =>
                   st = Stat(yielded[w][MinOf(ks)].tenth, yielded[w][MinOf(ks)].tenth,
                             yielded[w][MinOf(ks)].tenth, 1)

\* a local map with one accumulator of two observations, min < max, and
\* another accumulator of a single observation
C16_Witness ==
    \E w \in Workers : \E a \in DOMAIN wm[w] : \E b \in DOMAIN wm[w] :
        /\ wm[w][a].count = 2 /\ wm[w][a].min < wm[w][a].max
        /\ wm[w][b].count = 1

\* the shard goroutines that hold a slot of sem: started, slot not released
InFlight == {i \in Shards : vgo[i] \in {"run", "sent"}}

\* C17: at most runtime.NumCPU() shard goroutines are started and have not
\* released their slot of sem, and the dispatch loop gets through all 32
\* shards: past it every shard goroutine has been started.
C17_PoolBounded ==
    vpc # "off" =>
        /\ Cardinality(InFlight) <= ncpu
        /\ Cardinality(InFlight) = sem
        /\ vpc \in {"merge", "done"} =>
               vs = shardCount /\ \A i \in Shards : vgo[i] # "none"

\* with two CPUs two goroutines hold a slot while main is still dispatching
C17_Witness ==
    /\ vpc = "dispatch"
    /\ ncpu = 2
    /\ Cardinality(InFlight) = 2
    /\ vs < shardCount

\* what must hold of a result channel ch with `rcvd` maps received, closed or
\* not, for the senders whose positions are pcs
FanInSafe(pcs, ch, isClosed, rcvd, finished, n) ==
    /\ isClosed => \A i \in DOMAIN pcs : pcs[i] = "done"
    /\ Cardinality({i \in DOMAIN pcs : pcs[i] \in {"sent", "done"}}) = Len(ch) + rcvd
    /\ finished => rcvd = n /\ ch = <<>> /\ isClosed

FanInDone == vpc = "done" \/ lpc = "done"

\* some goroutine of go_v1 can take a step
CanStepV ==
    \/ vpc = "shard"
    \/ vpc = "dispatch" /\ VMainRunnable /\ (vs = shardCount \/ sem < ncpu)
    \/ \E idx \in Shards : vgo[idx] = "run" /\ OutHasRoom
    \/ \E idx \in Shards : vgo[idx] = "sent"
    \/ vpc = "merge" /\ ~closed /\ \A i \in Shards : vgo[i] = "done"
    \/ vpc = "merge" /\ out # <<>>
    \/ vpc = "merge" /\ out = <<>> /\ closed

\* some goroutine of part_001 can take a step
CanStepL ==
    \/ rpc = "read" /\ (Len(ReadBytes(data, rpos).line) = 0 \/ LineChanHasRoom)
    \/ rpc = "eof"
    \/ \E w \in Workers : lwpc[w] = "range" /\ (lineChan # <<>> \/ lineClosed)
    \/ \E w \in Workers : lwpc[w] = "send" /\ ResultChanHasRoom
    \/ \E w \in Workers : lwpc[w] = "sent"
    \/ ~resultClosed /\ \A w \in Workers : lwpc[w] = "done"
    \/ lpc = "merge" /\ resultChan # <<>>
    \/ lpc = "merge" /\ resultChan = <<>> /\ resultClosed

\* the steps that are left at most: every step of go_v1 and of part_001
\* lowers its measure, which is never negative
RankOf(pc) ==
    CASE pc \in {"shard", "range"} -> 3
      [] pc \in {"dispatch", "run", "none", "send", "read"} -> 2
      [] pc \in {"merge", "sent", "eof"} -> 1
      [] OTHER -> 0

MeasureV ==
    IF vpc = "off" THEN 0
    ELSE (Len(data) - lineStart) + RankOf(vpc) + (shardCount - vs)
            + 2 * Cardinality({i \in Shards : RankOf(vgo[i]) = 2})
            + Cardinality({i \in Shards : RankOf(vgo[i]) = 1})
            + (IF closed THEN 0 ELSE 1) + (shardCount - vrecv)

MeasureL ==
    IF lpc = "off" THEN 0
    ELSE (Len(data) - rpos) + RankOf(rpc) + RankOf(lpc)
            + (Len(LinesOf(data)) - Len(lgot))
            + 3 * Cardinality({w \in Workers : RankOf(lwpc[w]) = 3})
            + 2 * Cardinality({w \in Workers : RankOf(lwpc[w]) = 2})
            + Cardinality({w \in Workers : RankOf(lwpc[w]) = 1})
            + (IF resultClosed THEN 0 ELSE 1) + (workers - lrecv)

\* C18: the fan-in over the result channel neither deadlocks nor runs for
\* ever: every sender sends one map and finds room in the channel when it
\* sends, each sent map is in the channel or has been received once, the
\* channel is closed only when every sender has finished, main leaves the
\* merge loop only with one map received per sender; until then some
\* goroutine can take a step, and every step lowers the number of steps left.
C18_FanInTerminates ==
    /\ [](vpc # "off" =>
             /\ FanInSafe(vgo, out, closed, vrecv, vpc = "done", shardCount)
             /\ \A idx \in Shards : vgo[idx] = "run" => OutHasRoom
             /\ vpc = "done" \/ CanStepV)
    /\ [](lpc # "off" =>
             /\ FanInSafe(lwpc, resultChan, resultClosed, lrecv, lpc = "done", workers)
             /\ \A w \in Workers : lwpc[w] = "send" => ResultChanHasRoom
             /\ lpc = "done" \/ CanStepL)
    /\ [](MeasureV >= 0 /\ MeasureL >= 0)
    /\ [][MeasureV' + MeasureL' < MeasureV + MeasureL]_vars

\* go_v1 with two CPUs has merged all 32 maps
C18_Witness ==
    /\ vpc = "done"
    /\ ncpu = 2
    /\ vrecv = shardCount
    /\ DOMAIN final # {}

\* a value text strconv.ParseFloat accepts, among the texts of the model: an
\* optional sign, then digits with at most one '.', at least one digit
FloatText(v) ==
    LET body == IF v # <<>> /\ v[1] \in {MINUS, PLUS} THEN Tail(v) ELSE v
    IN  /\ \E k \in 1..Len(body) : IsDigit(body[k])
        /\ \A k \in 1..Len(body) : IsDigit(body[k]) \/ body[k] = DOT
        /\ Cardinality({k \in 1..Len(body) : body[k] = DOT}) <= 1

\* the number of lines of ls that have a ';' and a value that parses
CountedLines(ls) ==
    Cardinality({k \in 1..Len(ls) : HasSemi(ls[k]) /\ FloatText(ValueOf(ls[k]))})

\* C19: every line of the file, a last line without '\n' included, is
\* received by one worker and aggregated once: the lines received and the
\* lines in lineChan are, in order, the lines read so far; lineChan is closed
\* only when all lines are sent; the counts of the local maps add up to the
\* number of received lines with a ';' and a parsable value, and the counts of
\* the final map to that number for the whole file.
C19_LinesConserved ==
    lpc # "off" =>
        /\ Len(lgot) + Len(lineChan) <= Len(LinesOf(data))
        /\ lgot \o lineChan = SubSeq(LinesOf(data), 1, Len(lgot) + Len(lineChan))
        /\ lineClosed => lgot \o lineChan = LinesOf(data)
        /\ (\A w \in Workers : lwpc[w] # "range") => lgot = LinesOf(data)
        /\ SumOf([w \in Workers |-> TotalCount(local[w])]) = CountedLines(lgot)
        /\ lpc = "done" => TotalCount(lfinal) = CountedLines(LinesOf(data))

\* two workers have each aggregated a line of a file whose last line has no
\* '\n', and main has merged their maps
C19_Witness ==
    /\ lpc = "done"
    /\ workers = 2
    /\ data[Len(data)] # NL
    /\ \A w \in Workers : DOMAIN local[w] # {}
    /\ TotalCount(lfinal) = 2

\* the lines of data as byte ranges: lo is where the line starts, hi where
\* its '\n' is, or len(data) for a last line without one
LineStarts == {q \in 0..(Len(data) - 1) : q = 0 \/ data[q] = NL}

LineEnd(lo) ==
    CHOOSE q \in lo..Len(data) :
        /\ q = Len(data) \/ data[q + 1] = NL
        /\ \A j \in lo..(q - 1) : data[j + 1] # NL

\* the length of the line at lo, its terminator included
LineLen(lo) == LineEnd(lo) - lo + (IF LineEnd(lo) < Len(data) THEN 1 ELSE 0)

\* chunk >= 1 and no line, terminator included, longer than chunk
LinesFitChunk ==
    /\ chunkOf(data, workers) >= 1
    /\ \A lo \in LineStarts : LineLen(lo) <= chunkOf(data, workers)

\* worker w's slice holds the whole line at lo / some byte of it
HoldsLine(w, lo) == wstart[w] <= lo /\ LineEnd(lo) <= wend[w]
TouchesLine(w, lo) ==
    \E q \in lo..(LineEnd(lo) - 1) : wstart[w] <= q /\ q < wend[w]

\* C20: when chunk >= 1 and every line, terminator included, is at most chunk
\* bytes long, every line with at least one byte lies whole in the slice of
\* one worker and no other worker's slice has a byte of it, start <= end for
\* every worker, and a worker whose naive range has no line start has an
\* empty slice.
C20_LinesWholeInOneSlice ==
    (mpc \notin {"off", "dispatch"} /\ LinesFitChunk) =>
        /\ \A lo \in LineStarts :
               LineEnd(lo) > lo =>
                   \E w \in Workers :
                       /\ HoldsLine(w, lo)
                       /\ \A v \in Workers \ {w} : ~TouchesLine(v, lo)
        /\ \A w \in Workers : wstart[w] <= wend[w]
        /\ \A w \in Workers :
               (\A lo \in LineStarts :
                    lo < w * chunkOf(data, workers) \/ lo >= naiveEnd(data, workers, w))
                   => wstart[w] = wend[w]

\* three workers on a file whose lines fit the chunk: each of the first two
\* has a line whole in its slice, and the last line, as long as the chunk
\* and without '\n', is in the slice before the last, which is empty
C20_Witness ==
    /\ mpc \notin {"off", "dispatch"}
    /\ LinesFitChunk
    /\ workers = 3
    /\ \E a \in LineStarts : \E b \in LineStarts :
           /\ LineEnd(a) > a /\ LineEnd(b) > b
           /\ HoldsLine(0, a) /\ HoldsLine(1, b) /\ ~HoldsLine(0, b)
    /\ wstart[2] = wend[2]
    /\ data[Len(data)] # NL

\* the '\n'-terminated lines of data that lie before offset pos, pos being 0
\* or just after a '\n'
TerminatedLines(pos) == IF pos = 0 THEN <<>> ELSE LinesOf(SubSeq(data, 1, pos))

\* a line with a ';' at index >= 1
Sharded(line) == HasSemi(line) /\ FirstSemi(line) >= 2

\* the lines of ls that belong to shard sh, each with its '\n', in order
ShardText(ls, sh) ==
    Concat([k \in 1..Len(ls) |->
              IF Sharded(ls[k]) /\ shardIndex(KeyOf(ls[k])) = sh
              THEN ls[k] \o <<NL>> ELSE <<>>])

\* the shards that lines of ls belong to
ShardsOf(ls) ==
    {shardIndex(KeyOf(ls[k])) : k \in {j \in 1..Len(ls) : Sharded(ls[j])}}

\* the bytes of the lines of ls with a ';' at index >= 1, '\n' included
ShardedBytes(ls) ==
    SumOf([k \in 1..Len(ls) |-> IF Sharded(ls[k]) THEN Len(ls[k]) + 1 ELSE 0])

\* C21: every '\n'-terminated line scanned so far that has a ';' at index
\* >= 1 is, unchanged and with its '\n', in the shard buffer at
\* shardIndex(key), an index in 0..31, and in no other: each buffer is the
\* text of its lines in file order and the buffers hold no byte more.  The
\* shard files are the buffers of the whole file, the keys of one shard map
\* have one shard index, no key is in two maps of out or in a map of out
\* and in final, and every entry of the final map is the entry of its key
\* in the map of the key's shard.
C21_ShardingGroupsKeys ==
    vpc # "off" =>
        LET ls == TerminatedLines(lineStart)
            used == ShardsOf(ls)
        IN  /\ \A sh \in used : shardBuf[sh] = ShardText(ls, sh)
            /\ \A sh \in Shards \ used : shardBuf[sh] = <<>>
            /\ used \subseteq 0..31
            /\ SumOf([sh \in {x \in Shards : shardBuf[x] # <<>>} |-> Len(shardBuf[sh])])
                   = ShardedBytes(ls)
            /\ vpc # "shard" =>
                   /\ \A q \in (lineStart + 1)..Len(data) : data[q] # NL
                   /\ shardFiles = shardBuf
            /\ \A j \in 1..Len(out) : \A k \in DOMAIN out[j] :
                   /\ \A k2 \in DOMAIN out[j] : shardIndex(k2) = shardIndex(k)
                   /\ k \notin DOMAIN final
                   /\ \A j2 \in 1..Len(out) : j2 # j => k \notin DOMAIN out[j2]
            /\ \A k \in DOMAIN final :
                   LET m == scanShard(shardFiles[shardIndex(k)], 0, EmptyMap)
                   IN  Has(m, k) /\ final[k] = Get(m, k)

\* a file with two stations of one shard: both are in the final map, each
\* with the one line it has
C21_Witness ==
    /\ vpc = "done"
    /\ \E a \in DOMAIN final : \E b \in DOMAIN final :
           /\ a # b
           /\ shardIndex(a) = shardIndex(b)
           /\ final[a].count = 1 /\ final[b].count = 1
    /\ Len(shardFiles[shardIndex(Bytes(<<"A">>))]) = 8

====
